---- MODULE Spec2Model ----
(***************************************************************************)
(* Annotation store and session layer of the flatmap server                *)
(* (src/mapserver/annotator.py).                                           *)
(*                                                                         *)
(* Python dictionaries are functions whose DOMAIN is the set of keys that  *)
(* are present.  JSON blobs stored in text columns are kept as the value   *)
(* they encode.  The SQLite database file is the pair dbAnn/dbFeat of      *)
(* committed rows; a connection's uncommitted statements are the delta     *)
(* tx[h], and the RESERVED lock of the file is the variable writer; the    *)
(* variable pending tells whether its holder also holds the PENDING lock,  *)
(* and trans[h] whether the connection of h is in a transaction that has   *)
(* written nothing, and whether it holds the SHARED lock in it.            *)
(* The variable file tells whether the database file exists and whether    *)
(* its tables have been created.                                           *)
(***************************************************************************)
EXTENDS Integers, Sequences, FiniteSets, TLC

VARIABLES
    file,       \* the database file: "absent", "empty" (no tables yet) or "ready"
    dbAnn,      \* committed rows of table annotations; the rowid is the index
    dbFeat,     \* committed rows of table features
    writer,     \* the handle whose connection holds the write lock of the file
    pending,    \* the connection that holds the write lock has been refused a
                \* commit: it keeps the PENDING lock, under which no other
                \* connection can begin to read
    trans,      \* trans[h]: "none", or the transaction a refused insert has left
                \* the connection in: "open" without a lock, "shared" with
                \* the SHARED lock a select has taken in it
    loaded,     \* loaded[h]: the connection has read the schema with its tables:
                \* a statement of it has been prepared
    open,       \* open[h]: the handle's connection exists (self.__db is not None)
    tx,         \* tx[h]: statements the connection has executed and not committed
    pc,         \* pc[h]: the statement the constructor or the add_annotation
                \* call running on h executes next
    cur,        \* cur[h]: the locals of the add_annotation call running on h
    sessions,   \* the module-level dictionary __sessions
    result,     \* what the store call that returned in the last step returned
    response,   \* the response a request handler produced in the last step
    issued,     \* the greatest annotationId that result has carried so far
    req,        \* req[q]: the locals of the request handler, or of the
                \* registry call, that thread q is executing
    provider,   \* provider[key]: what get_user(key) resolves at present
    reads       \* history: a read call that has returned since a connection
                \* was last opened or closed or executed a statement of
                \* add_annotation, any one of them, or none

vars == <<file, dbAnn, dbFeat, writer, pending, trans, loaded, open, tx, pc, cur, sessions, result,
          response, issued, req, provider, reads>>
connVars == <<dbAnn, dbFeat, writer, pending, trans, loaded, open, tx, pc, cur>>
storeVars == <<file, dbAnn, dbFeat, writer, pending, trans, loaded, open, tx, pc, cur>>

----------------------------------------------------------------------------
(* Bounds and input domains *)

MaxAnnotations == 3
\* the annotations the request handlers add
MaxPosted == 1

Handles == {"h1", "h2"}
Resources == {"r1", "r2"}
Items == {"i1", "i2"}
ItemOrder == <<"i1", "i2">>
Users == {"u1", "u2"}
Clock == {"T1"}
Null == 0
NoCall == [none |-> TRUE]
NoHandle == "none"
Requests == {"q1", "q2"}
Keys == {"k1", "k2"}
\* the keys whose identity changes while the server runs
ChangingKeys == {"k1"}
None == "None"

----------------------------------------------------------------------------
(* Python dict helpers *)

Has(d, k) == k \in DOMAIN d
Without(d, ks) == [k \in DOMAIN d \ ks |-> d[k]]
Pop(d, k) == IF Has(d, k) THEN d[k] ELSE None
Update(a, b) == [k \in DOMAIN a \cup DOMAIN b |-> IF k \in DOMAIN b THEN b[k] ELSE a[k]]
\* a dictionary without keys
EmptyDict == "{}"
\* not v: None, the empty string and the empty dictionary are false
Falsy(v) == v \in {None, "", EmptyDict}
\* d.get(k) where the values of d are not strings: the Optional value is a
\* sequence of at most one element
Get(d, k) == IF Has(d, k) THEN <<d[k]>> ELSE <<>>

----------------------------------------------------------------------------
(* Payloads handed to add_annotation *)

FeatureDict == "{type:Point}"
FeatureText == "'Point'"
JsonDicts == {FeatureDict, EmptyDict}

Creator(u) ==
    IF u = "u1" THEN [name |-> "Ann", orcid |-> "u1", canUpdate |-> TRUE]
                ELSE [name |-> "Bob", orcid |-> u]

Plain(r, i, u) ==
    [resource |-> r, item |-> i, creator |-> Creator(u), comment |-> "x"]
WithFeature(r, i, u, f) ==
    [resource |-> r, item |-> i, creator |-> Creator(u), comment |-> "x", feature |-> f]

ValidPayloads ==
    { Plain("r1", "i1", "u1"), WithFeature("r1", "i1", "u1", FeatureDict),
      Plain("r1", "i1", "u2"),
      Plain("r1", "i2", "u2"), WithFeature("r1", "i2", "u2", FeatureDict),
      WithFeature("r2", "i1", "u1", FeatureDict),
      WithFeature("r1", "i1", "u1", FeatureText),
      WithFeature("r1", "i1", "u1", EmptyDict),
      [resource |-> "r1", item |-> "i1", creator |-> Creator("u1"),
       comment |-> "x", created |-> "T1"] }

InvalidPayloads ==
    { [item |-> "i1", creator |-> Creator("u1"), comment |-> "x", feature |-> FeatureDict],
      [resource |-> "", item |-> "i1", creator |-> Creator("u1"), comment |-> "x"],
      [resource |-> "r1", creator |-> Creator("u1"), comment |-> "x"],
      [resource |-> "r1", item |-> "", creator |-> Creator("u1"), comment |-> "x"],
      [resource |-> "r1", item |-> "i1", comment |-> "x", feature |-> FeatureDict],
      [resource |-> "r1", item |-> "i1", creator |-> [name |-> "Cy"], comment |-> "x"],
      [resource |-> "r1", item |-> "i1", creator |-> [name |-> "Cy", orcid |-> ""],
       comment |-> "x", feature |-> FeatureDict] }

Payloads == ValidPayloads \cup InvalidPayloads

\* a creator that is present and is not a mapping
NonMappingPayloads ==
    { [resource |-> "r1", item |-> "i1", creator |-> "Ann", comment |-> "x"] }

\* annotations of one item whose creators' names and orcids sort differently
OrderPayloads ==
    { [resource |-> "r1", item |-> "i1", creator |-> Creator("u0"), created |-> "T1"],
      [resource |-> "r1", item |-> "i1", creator |-> Creator("u1"), created |-> "T1"],
      [resource |-> "r1", item |-> "i1", creator |-> Creator("u2"), created |-> "T2"],
      [resource |-> "r1", item |-> "i2", creator |-> Creator("u2")] }

\* the payloads of calls that run at the same time
ConcPayloads ==
    { WithFeature("r1", "i1", "u1", FeatureDict), WithFeature("r1", "i1", "u2", FeatureDict),
      Plain("r1", "i2", "u2") }

\* the payloads written between reads
ReadPayloads ==
    { WithFeature("r1", "i1", "u1", FeatureDict), Plain("r1", "i1", "u2") }

\* the payload of the requests posted while the store is being created
RaisePayloads == { Plain("r1", "i1", "u1") }

\* the key, the credentials and the identity of those requests
RaiseParams == { [key |-> "k1"] }
RaiseCredentials == { [key |-> "k1", session |-> "t1"] }
RaiseUserData == { [name |-> "Ann", orcid |-> "u1", canUpdate |-> TRUE] }

\* the payloads requests post
WebPayloads ==
    { Plain("r1", "i1", "u1"), WithFeature("r1", "i1", "u1", FeatureDict),
      [resource |-> "r1", item |-> "i1", comment |-> "x", feature |-> FeatureDict] }

----------------------------------------------------------------------------
(* The database as one connection sees it *)

NoTx == [ann |-> <<>>, feat |-> <<>>, del |-> {}]

Marked(t, k) == \E m \in t.del : m[1] = k
MarkOf(t, k) == (CHOOSE m \in t.del : m[1] = k)[2]

\* variant: the inserted rows take the first rowids
ApplyAnnFront(base, t) == t.ann \o base
\* insert into annotations: the new rows follow the rows of the table
ApplyAnn(base, t) == base \o t.ann
ApplyFeat(base, t) ==
    [k \in 1..Len(base) |->
        IF Marked(t, k) THEN [base[k] EXCEPT !.deleted = MarkOf(t, k)] ELSE base[k]]
      \o t.feat

ViewAnn(h) == ApplyAnn(dbAnn, tx[h])
ViewFeat(h) == ApplyFeat(dbFeat, tx[h])

\* variant: connections that do not lock the file
NoLock(h) == FALSE
\* another connection holds the write lock of the database file
LockedByOther(h) == writer \notin {NoHandle, h}
\* another connection holds the PENDING lock, which keeps connections from
\* taking the SHARED lock: a select of h, unless h holds the SHARED lock
\* already, raises sqlite3.OperationalError (database is locked) when the
\* timeout of the connection has passed
ReadLockedOut(h) == pending /\ writer # h /\ trans[h] # "shared"

----------------------------------------------------------------------------
(* AnnotationStore: construction and close *)

NoResult == [k \in {} |-> 0]
NoReturn == [call |-> "none"]
NoResponse == [op |-> "none"]

Init ==
    /\ file = "absent"
    /\ dbAnn = <<>>
    /\ dbFeat = <<>>
    /\ writer = NoHandle
    /\ pending = FALSE
    /\ trans = [h \in Handles |-> "none"]
    /\ loaded = [h \in Handles |-> FALSE]
    /\ open = [h \in Handles |-> FALSE]
    /\ tx = [h \in Handles |-> NoTx]
    /\ pc = [h \in Handles |-> "idle"]
    /\ cur = [h \in Handles |-> NoCall]
    /\ sessions = [t \in {} |-> 0]
    /\ result = NoReturn
    /\ response = NoResponse
    /\ issued = 0
    /\ req = [q \in Requests |-> NoCall]
    /\ provider = [k \in Keys |-> IF k \in ChangingKeys THEN [error |-> "forbidden"]
                                  ELSE [name |-> "Ann", orcid |-> "u1"]]
    /\ reads = {}

OperationalError == "OperationalError"

\* AnnotationStore(): db_name.exists().  When the file exists the constructor
\* goes straight to self.__db = sqlite3.connect(db_name), which leaves the
\* file as it is, tables or no tables; otherwise it goes on to create the
\* store
Open(h) ==
    /\ ~open[h]
    /\ pc[h] = "idle"
    /\ IF file = "absent"
       THEN /\ pc' = [pc EXCEPT ![h] = "create"]
            /\ UNCHANGED open
       ELSE /\ open' = [open EXCEPT ![h] = TRUE]
            /\ UNCHANGED pc
    /\ result' = NoReturn
    /\ reads' = {}
    /\ UNCHANGED <<file, dbAnn, dbFeat, writer, pending, trans, loaded, tx, cur, sessions, response, issued, req, provider>>

\* db = sqlite3.connect(db_name) of the branch that creates the store: the
\* file comes into existence without tables, unless another constructor
\* has created it since db_name.exists() was evaluated
OpenCreate(h) ==
    /\ pc[h] = "create"
    /\ file' = IF file = "absent" THEN "empty" ELSE file
    /\ pc' = [pc EXCEPT ![h] = "schema"]
    /\ result' = NoReturn
    /\ UNCHANGED <<dbAnn, dbFeat, writer, pending, trans, loaded, open, tx, cur, sessions, response, issued, req, provider, reads>>

\* db.executescript(ANNOTATION_STORE_SCHEMA); db.close()
OpenSchema(h) ==
    /\ pc[h] = "schema"
    /\ file = "empty"
    /\ file' = "ready"
    /\ pc' = [pc EXCEPT ![h] = "connect"]
    /\ result' = NoReturn
    /\ UNCHANGED <<dbAnn, dbFeat, writer, pending, trans, loaded, open, tx, cur, sessions, response, issued, req, provider, reads>>

\* create table annotations raises sqlite3.OperationalError (table
\* annotations already exists): another constructor has committed the schema
\* since db_name.exists() was evaluated; the constructor ends by raising
OpenSchemaRaise(h) ==
    /\ pc[h] = "schema"
    /\ file = "ready"
    /\ pc' = [pc EXCEPT ![h] = "idle"]
    /\ result' = [call |-> "raise", in |-> "__init__", exception |-> OperationalError]
    /\ UNCHANGED <<file, dbAnn, dbFeat, writer, pending, trans, loaded, open, tx, cur, sessions, response, issued, req, provider, reads>>

\* self.__db = sqlite3.connect(db_name) after the store was created
OpenConnect(h) ==
    /\ pc[h] = "connect"
    /\ open' = [open EXCEPT ![h] = TRUE]
    /\ pc' = [pc EXCEPT ![h] = "idle"]
    /\ result' = NoReturn
    /\ reads' = {}
    /\ UNCHANGED <<file, dbAnn, dbFeat, writer, pending, trans, loaded, tx, cur, sessions, response, issued, req, provider>>

\* self.__db.close(): the connection ends its transaction, which discards
\* its uncommitted statements and frees its locks
Released(h) ==
    /\ tx' = [tx EXCEPT ![h] = NoTx]
    /\ writer' = IF writer = h THEN NoHandle ELSE writer
    /\ pending' = IF writer = h THEN FALSE ELSE pending
    /\ trans' = [trans EXCEPT ![h] = "none"]
    /\ loaded' = [loaded EXCEPT ![h] = FALSE]

Close(h) ==
    /\ open[h]
    /\ pc[h] = "idle"
    /\ open' = [open EXCEPT ![h] = FALSE]
    /\ Released(h)
    /\ result' = NoReturn
    /\ reads' = {}
    /\ UNCHANGED <<file, dbAnn, dbFeat, pc, cur, sessions, response, issued, req, provider>>

----------------------------------------------------------------------------
(* AnnotationStore.add_annotation, one action per SQL statement *)

\* the condition of the if statement that guards the insertion
Valid(p) ==
    /\ ~Falsy(Pop(p, "resource"))
    /\ ~Falsy(Pop(p, "item"))
    /\ Has(p, "creator")
    /\ ~Falsy(Pop(p.creator, "orcid"))

Created(p, now) == IF Pop(p, "created") = None THEN now ELSE p.created

AnnotationRow(p, created) ==
    [resource |-> p.resource, item |-> p.item, created |-> created,
     orcid |-> p.creator.orcid,
     creator |-> Without(p.creator, {"canUpdate"}),
     annotation |-> Without(p, {"created", "creator", "resource", "item", "feature"})]

FeatureRow(resource, item, id, feature) ==
    [resource |-> resource, item |-> item, deleted |-> Null,
     annotation |-> id, feature |-> feature]

\* variant: the parameters item and resource bound in the wrong order
SupersedesSwapped(row, resource, item) ==
    row.deleted = Null /\ row.resource = item /\ row.item = resource
\* variant: the update without "deleted is null"
SupersedesAny(row, resource, item) ==
    row.resource = resource /\ row.item = item
\* where deleted is null and resource=? and item=?
Supersedes(row, resource, item) ==
    row.deleted = Null /\ row.resource = resource /\ row.item = item

\* if feature and isinstance(feature, dict)
StoresFeature(feature) == ~Falsy(feature) /\ feature \in JsonDicts

\* the statements of the transaction, as they change what a connection has
\* executed: t is its uncommitted work over the committed feature rows base
TxInsert(t, row) == [t EXCEPT !.ann = Append(@, row)]

TxUpdate(base, t, id, resource, item) ==
    LET marks == { <<k, id>> : k \in { j \in 1..Len(base) :
                      ~Marked(t, j) /\ Supersedes(base[j], resource, item) } }
        own == [k \in 1..Len(t.feat) |->
                  IF Supersedes(t.feat[k], resource, item)
                  THEN [t.feat[k] EXCEPT !.deleted = id] ELSE t.feat[k]]
    IN [ann |-> t.ann, feat |-> own, del |-> t.del \cup marks]

TxFeature(t, row) == [t EXCEPT !.feat = Append(@, row)]

\* the call on h returns res
Return(h, p, res) ==
    /\ pc' = [pc EXCEPT ![h] = "idle"]
    /\ cur' = [cur EXCEPT ![h] = NoCall]
    /\ result' = [call |-> "add_annotation", valid |-> Valid(p), value |-> res]
    /\ issued' = IF Has(res, "annotationId") /\ res.annotationId > issued
                 THEN res.annotationId ELSE issued

AddClosed(h, p) ==
    /\ pc[h] = "idle"
    /\ ~open[h]
    /\ Return(h, p, [error |-> "No annotation database..."])
    /\ UNCHANGED <<file, dbAnn, dbFeat, writer, pending, trans, loaded, open, tx, sessions, response, req, provider, reads>>

AddInvalid(h, p) ==
    /\ pc[h] = "idle"
    /\ open[h]
    /\ ~Valid(p)
    /\ Return(h, p, NoResult)
    /\ UNCHANGED <<file, dbAnn, dbFeat, writer, pending, trans, loaded, open, tx, sessions, response, req, provider, reads>>

\* creator.get('orcid') on a creator that is not a mapping raises
\* AttributeError before the try statement: the call ends by raising
AddRaise(h, p) ==
    /\ pc[h] = "idle"
    /\ open[h]
    /\ ~Falsy(Pop(p, "resource"))
    /\ ~Falsy(Pop(p, "item"))
    /\ ~Falsy(Pop(p, "creator"))
    /\ result' = [call |-> "raise", in |-> "add_annotation", exception |-> "AttributeError"]
    /\ UNCHANGED <<storeVars, sessions, response, issued, req, provider, reads>>

\* insert into annotations ...; result['annotationId'] = cursor.lastrowid
AddInsert(h, p, now) ==
    /\ pc[h] = "idle"
    /\ open[h]
    /\ Valid(p)
    /\ file = "ready"
    /\ ~LockedByOther(h)
    /\ Len(ViewAnn(h)) < MaxAnnotations
    /\ tx' = [tx EXCEPT ![h] = TxInsert(@, AnnotationRow(p, Created(p, now)))]
    /\ writer' = h
    /\ cur' = [cur EXCEPT ![h] = [payload |-> p,
                                   result |-> [annotationId |-> Len(ViewAnn(h)) + 1]]]
    /\ pc' = [pc EXCEPT ![h] = "update"]
    /\ result' = NoReturn
    /\ reads' = {}
    /\ loaded' = [loaded EXCEPT ![h] = TRUE]
    /\ UNCHANGED <<file, dbAnn, dbFeat, pending, trans, open, sessions, response, issued, req, provider>>

\* what a statement that fails leaves of the connection's transaction.  A
\* failure to get a lock (database is locked) or to find the table (no such
\* table) leaves the statements of the transaction as they are; after a
\* storage failure (database or disk is full, disk I/O error) SQLite rolls
\* the whole transaction back by itself, which leaves no uncommitted
\* statement and no lock.
\* An insert that is refused the write lock is the first statement after
\* the BEGIN the sqlite3 module has issued for it: the connection stays in
\* that transaction, without a lock.  It is not in one when the statement
\* could not be prepared: no such table, or a connection that has not read
\* the schema yet cannot read it because another connection holds the
\* PENDING lock.
\* A commit that is refused has taken the PENDING lock on its way to the
\* exclusive lock, and the connection keeps it with its transaction.
\* the failing statement has been prepared: the connection has read the
\* schema, or reads it now, which it can when the file has its tables and no
\* other connection holds the PENDING lock
SchemaRead(h) ==
    IF loaded[h] THEN file = "ready"
    ELSE file = "ready" /\ ~(pending /\ writer # h)

TransAfterRaise(h, rolled_back) ==
    IF rolled_back THEN "none"
    ELSE IF trans[h] = "none" /\ pc[h] = "idle" /\ SchemaRead(h)
    THEN "open"
    ELSE trans[h]

\* variant: every failure leaves the transaction as it is
TxAfterRaiseKept(h, rolled_back) ==
    /\ UNCHANGED <<tx, writer, pending>>
    /\ trans' = [trans EXCEPT ![h] = TransAfterRaise(h, FALSE)]
    /\ loaded' = [loaded EXCEPT ![h] = SchemaRead(h)]
TxAfterRaise(h, rolled_back) ==
    /\ tx' = IF rolled_back THEN [tx EXCEPT ![h] = NoTx] ELSE tx
    /\ writer' = IF rolled_back /\ writer = h THEN NoHandle ELSE writer
    /\ pending' = IF writer # h THEN pending
                  ELSE IF rolled_back THEN FALSE
                  ELSE pc[h] = "commit" \/ pending
    /\ trans' = [trans EXCEPT ![h] = TransAfterRaise(h, rolled_back)]
    /\ loaded' = [loaded EXCEPT ![h] = SchemaRead(h)]

\* the insert statement raises sqlite3.OperationalError.  It is the first
\* write of a transaction unless an earlier call has left one open: only
\* then does it ask for the write lock, so a connection that holds the lock
\* fails with a storage failure only
InsertRaise(h, p, rolled_back) ==
    /\ pc[h] = "idle"
    /\ open[h]
    /\ Valid(p)
    /\ writer = h => rolled_back
    /\ TxAfterRaise(h, rolled_back)
    /\ Return(h, p, [error |-> OperationalError])
    /\ reads' = {}
    /\ UNCHANGED <<file, dbAnn, dbFeat, open, sessions, response, req, provider>>

\* update features set deleted=? where deleted is null and resource=? and item=?
AddUpdate(h) ==
    /\ pc[h] = "update"
    /\ LET p == cur[h].payload
       IN /\ tx' = [tx EXCEPT ![h] =
                      TxUpdate(dbFeat, @, cur[h].result.annotationId, p.resource, p.item)]
          /\ pc' = [pc EXCEPT ![h] =
                      IF StoresFeature(Pop(p, "feature")) THEN "feature" ELSE "commit"]
    /\ result' = NoReturn
    /\ reads' = {}
    /\ UNCHANGED <<file, dbAnn, dbFeat, writer, pending, trans, loaded, open, cur, sessions, response, issued, req, provider>>

\* insert into features ... values (?, ?, ?, null, ?)
AddFeature(h) ==
    /\ pc[h] = "feature"
    /\ LET p == cur[h].payload
       IN tx' = [tx EXCEPT ![h] =
                   TxFeature(@, FeatureRow(p.resource, p.item,
                                           cur[h].result.annotationId, p.feature))]
    /\ pc' = [pc EXCEPT ![h] = "commit"]
    /\ result' = NoReturn
    /\ reads' = {}
    /\ UNCHANGED <<file, dbAnn, dbFeat, writer, pending, trans, loaded, open, cur, sessions, response, issued, req, provider>>

\* another connection holds the SHARED lock: a commit cannot get the
\* exclusive lock
ReadByOther(h) == \E g \in Handles \ {h} : trans[g] = "shared"

\* commit
AddCommit(h) ==
    /\ pc[h] = "commit"
    /\ ~ReadByOther(h)
    /\ dbAnn' = ApplyAnn(dbAnn, tx[h])
    /\ dbFeat' = ApplyFeat(dbFeat, tx[h])
    /\ tx' = [tx EXCEPT ![h] = NoTx]
    /\ writer' = NoHandle
    /\ pending' = FALSE
    /\ trans' = [trans EXCEPT ![h] = "none"]
    /\ UNCHANGED loaded
    /\ Return(h, cur[h].payload, cur[h].result)
    /\ reads' = {}
    /\ UNCHANGED <<file, open, sessions, response, req, provider>>

\* the update, the feature insert or the commit raises
\* sqlite3.OperationalError: the except clause adds the message to the
\* result and the call returns.  The update and the feature insert run
\* under the write lock the insert has taken and fail with a storage failure
\* only; the commit also fails when it cannot lock the file against its
\* readers.  There is no rollback in the except clause, so the connection
\* keeps what the call has executed unless SQLite has rolled back by itself
StatementRaise(h, rolled_back) ==
    /\ pc[h] \in {"update", "feature", "commit"}
    /\ pc[h] # "commit" => rolled_back
    /\ TxAfterRaise(h, rolled_back)
    /\ Return(h, cur[h].payload, Update(cur[h].result, [error |-> OperationalError]))
    /\ reads' = {}
    /\ UNCHANGED <<file, dbAnn, dbFeat, open, sessions, response, req, provider>>

----------------------------------------------------------------------------
(* The queries of the read operations, over the rows a connection sees *)

RowIds(ann) == 1..Len(ann)

\* select distinct item from annotations where resource=? order by item
SelectItems(ann, resource) ==
    SelectSeq(ItemOrder, LAMBDA i :
        \E k \in RowIds(ann) : ann[k].resource = resource /\ ann[k].item = i)

\* select distinct item from annotations where resource=? and orcid = ? (or != ?)
SelectUserItems(ann, resource, user, participated) ==
    SelectSeq(ItemOrder, LAMBDA i :
        \E k \in RowIds(ann) :
            /\ ann[k].resource = resource
            /\ ann[k].item = i
            /\ IF participated THEN ann[k].orcid = user ELSE ann[k].orcid # user)

\* annotations as a left join features as f on a.rowid = f.annotation
\* where a.rowid=? and f.deleted is null: the features joined to the row
\* and, of those, the ones that pass the where clause
Joined(feat, id) == { k \in 1..Len(feat) : feat[k].annotation = id }
JoinedCurrent(feat, id) == { k \in Joined(feat, id) : feat[k].deleted = Null }

SelectAnnotation(ann, feat, id) ==
    IF id \notin RowIds(ann) THEN NoResult
    ELSE IF Joined(feat, id) = {}
    THEN Update([annotationId |-> id, resource |-> ann[id].resource,
                 item |-> ann[id].item, created |-> ann[id].created,
                 creator |-> ann[id].creator, feature |-> None],
                ann[id].annotation)
    ELSE IF JoinedCurrent(feat, id) = {} THEN NoResult
    ELSE LET k == CHOOSE j \in JoinedCurrent(feat, id) :
                     \A m \in JoinedCurrent(feat, id) : j <= m
         IN Update([annotationId |-> id, resource |-> ann[id].resource,
                    item |-> ann[id].item, created |-> ann[id].created,
                    creator |-> ann[id].creator,
                    feature |-> IF feat[k].feature = "" THEN None ELSE feat[k].feature],
                   ann[id].annotation)

\* select feature from features where deleted is null and resource=? order by item
CurrentOf(feat, resource, item) ==
    SelectSeq(feat, LAMBDA f : f.deleted = Null /\ f.resource = resource /\ f.item = item)

RECURSIVE Flatten(_)
Flatten(ss) == IF ss = <<>> THEN <<>> ELSE Head(ss) \o Flatten(Tail(ss))

Blobs(rows) == [k \in 1..Len(rows) |-> rows[k].feature]

SelectFeatures(feat, resource) ==
    Blobs(Flatten([n \in 1..Len(ItemOrder) |-> CurrentOf(feat, resource, ItemOrder[n])]))

\* ... and item in (?, ...)
SelectItemFeatures(feat, resource, item_ids) ==
    Blobs(Flatten([n \in 1..Len(ItemOrder) |->
        IF ItemOrder[n] \in item_ids
        THEN CurrentOf(feat, resource, ItemOrder[n]) ELSE <<>>]))

\* select rowid, ... from annotations {where} order by created desc, creator
\* the order of the texts in the columns created and creator; creator holds
\* json.dumps(creator)
TimeOrder == <<"T1", "T2">>
CreatorOrder ==
    << [name |-> "Ann", orcid |-> "u1"], [name |-> "Bob", orcid |-> "u0"],
       [name |-> "Bob", orcid |-> "u2"] >>
Rank(order, x) == CHOOSE n \in 1..Len(order) : order[n] = x

Matches(row, resource_id, item_id) ==
    \/ resource_id = None
    \/ /\ row.resource = resource_id
       /\ item_id = None \/ row.item = item_id

\* the statement has no sort key after creator: rows that share created and
\* creator come out in the order in which the query reads them.  Without a
\* where clause that is the table, by rowid; with resource=? it is
\* annotations_index (resource, item, created, orcid, rowid) forwards; with
\* resource=? and item=? it is that index backwards, which gives created
\* descending and leaves creator to be sorted
PlanBefore(ann, a, b, resource_id, item_id) ==
    IF resource_id = None THEN a < b
    ELSE IF item_id = None
    THEN LET ia == Rank(ItemOrder, ann[a].item)
             ib == Rank(ItemOrder, ann[b].item)
         IN ia < ib \/ (ia = ib /\ a < b)
    ELSE a > b

Before(ann, a, b, resource_id, item_id) ==
    LET ta == Rank(TimeOrder, ann[a].created)
        tb == Rank(TimeOrder, ann[b].created)
        ca == Rank(CreatorOrder, ann[a].creator)
        cb == Rank(CreatorOrder, ann[b].creator)
    IN \/ ta > tb
       \/ ta = tb /\ ca < cb
       \/ ta = tb /\ ca = cb /\ PlanBefore(ann, a, b, resource_id, item_id)

RECURSIVE Ordered(_, _, _, _)
Ordered(ann, ids, resource_id, item_id) ==
    IF ids = {} THEN <<>>
    ELSE LET first == CHOOSE a \in ids :
                         \A b \in ids \ {a} : Before(ann, a, b, resource_id, item_id)
         IN <<first>> \o Ordered(ann, ids \ {first}, resource_id, item_id)

AnnotationRecord(ann, id) ==
    Update([annotationId |-> id, resource |-> ann[id].resource, item |-> ann[id].item,
            created |-> ann[id].created, creator |-> ann[id].creator],
           ann[id].annotation)

SelectAnnotations(ann, resource_id, item_id) ==
    LET ids == Ordered(ann, { k \in RowIds(ann) : Matches(ann[k], resource_id, item_id) },
                       resource_id, item_id)
    IN [n \in 1..Len(ids) |-> AnnotationRecord(ann, ids[n])]

(* AnnotationStore read methods; s is the store object: whether its     *)
(* connection exists and the rows the connection sees                    *)

Store(h) == [open |-> open[h], ann |-> ViewAnn(h), feat |-> ViewFeat(h)]
\* AnnotationStore(): a new connection sees the committed rows
FreshStore == [open |-> TRUE, ann |-> dbAnn, feat |-> dbFeat]

annotated_items(s, resource_id) ==
    [resource |-> resource_id,
     items |-> IF s.open THEN SelectItems(s.ann, resource_id) ELSE <<>>]

user_items(s, resource_id, user_id, participated) ==
    [resource |-> resource_id,
     items |-> IF s.open /\ user_id # None
               THEN SelectUserItems(s.ann, resource_id, user_id, participated)
               ELSE <<>>,
     userId |-> user_id,
     participated |-> participated]

features(s, resource_id) ==
    [resource |-> resource_id,
     features |-> IF s.open THEN SelectFeatures(s.feat, resource_id) ELSE <<>>]

item_features(s, resource_id, item_ids) ==
    [resource |-> resource_id,
     features |-> IF s.open /\ item_ids # {}
                  THEN SelectItemFeatures(s.feat, resource_id, item_ids) ELSE <<>>]

annotations(s, resource_id, item_id) ==
    IF s.open THEN SelectAnnotations(s.ann, resource_id, item_id) ELSE <<>>

annotation(s, annotation_id) ==
    IF s.open THEN SelectAnnotation(s.ann, s.feat, annotation_id) ELSE NoResult

(* The read methods called on a handle: each executes its select and     *)
(* returns.  A select begins no transaction; in the transaction a refused *)
(* insert has left open, the connection keeps the SHARED lock the select  *)
(* has taken.                                                             *)

\* the call executes a select: the connection exists, and user_items has a
\* user_id, item_features at least one item
Selects(h, call, args) ==
    /\ open[h]
    /\ call = "user_items" => args[2] # None
    /\ call = "item_features" => args[2] # {}

\* the transaction of the connection after a select of the call
TransAfterSelect(h, call, args) ==
    IF Selects(h, call, args) /\ trans[h] = "open" THEN "shared" ELSE trans[h]

\* variant: a select that begins a transaction and takes the write lock
ReadReturnBegin(h, call, args, value) ==
    /\ pc[h] = "idle"
    /\ Selects(h, call, args) => file = "ready" /\ ~ReadLockedOut(h)
    /\ ~LockedByOther(h)
    /\ writer' = h
    /\ trans' = [trans EXCEPT ![h] = TransAfterSelect(h, call, args)]
    /\ loaded' = [loaded EXCEPT ![h] = @ \/ Selects(h, call, args)]
    /\ result' = [call |-> call, handle |-> h, args |-> args, value |-> value]
    /\ reads' \in {reads, {[call |-> call, handle |-> h, args |-> args, value |-> value]}}
    /\ UNCHANGED <<file, dbAnn, dbFeat, pending, open, tx, pc, cur, sessions, response, issued, req, provider>>
ReadReturn(h, call, args, value) ==
    /\ pc[h] = "idle"
    /\ Selects(h, call, args) => file = "ready" /\ ~ReadLockedOut(h)
    /\ trans' = [trans EXCEPT ![h] = TransAfterSelect(h, call, args)]
    /\ loaded' = [loaded EXCEPT ![h] = @ \/ Selects(h, call, args)]
    /\ result' = [call |-> call, handle |-> h, args |-> args, value |-> value]
    /\ reads' \in {reads, {[call |-> call, handle |-> h, args |-> args, value |-> value]}}
    /\ UNCHANGED <<file, dbAnn, dbFeat, writer, pending, open, tx, pc, cur, sessions, response, issued, req, provider>>

\* the select raises sqlite3.OperationalError: no such table, on a file
\* whose tables are not created yet, or database is locked, when another
\* connection holds the PENDING lock.  The read ends by raising
ReadRaise(h, call, args) ==
    /\ pc[h] = "idle"
    /\ Selects(h, call, args)
    /\ file = "empty" \/ ReadLockedOut(h)
    /\ result' = [call |-> "raise", in |-> call, exception |-> OperationalError]
    /\ UNCHANGED <<storeVars, sessions, response, issued, req, provider, reads>>

ReadAnnotatedItems(h, resource_id) ==
    ReadReturn(h, "annotated_items", <<resource_id>>,
               annotated_items(Store(h), resource_id))

ReadUserItems(h, resource_id, user_id, participated) ==
    ReadReturn(h, "user_items", <<resource_id, user_id, participated>>,
               user_items(Store(h), resource_id, user_id, participated))

ReadFeatures(h, resource_id) ==
    ReadReturn(h, "features", <<resource_id>>, features(Store(h), resource_id))

ReadItemFeatures(h, resource_id, item_ids) ==
    ReadReturn(h, "item_features", <<resource_id, item_ids>>,
               item_features(Store(h), resource_id, item_ids))

ReadAnnotations(h, resource_id, item_id) ==
    ReadReturn(h, "annotations", <<resource_id, item_id>>,
               annotations(Store(h), resource_id, item_id))

ReadAnnotation(h, annotation_id) ==
    ReadReturn(h, "annotation", <<annotation_id>>, annotation(Store(h), annotation_id))

----------------------------------------------------------------------------
(* Session registry and the gate of the request handlers *)

\* str(uuid.uuid5(uuid.NAMESPACE_URL, key))
SessionKey(key) == IF key = "k1" THEN "t1" ELSE IF key = "k2" THEN "t2" ELSE "t0"

\* variant: an entry that exists is kept
NewSessionKeep(key, data) == Update([t \in {SessionKey(key)} |-> data], sessions)
\* variant: the fields of data written over the entry that exists
NewSessionMerged(key, data) ==
    LET t == SessionKey(key)
    IN Update(sessions, [k \in {t} |->
                 IF t \in DOMAIN sessions THEN Update(sessions[t], data) ELSE data])
\* __sessions[session_key] = data
NewSession(key, data) == Update(sessions, [t \in {SessionKey(key)} |-> data])

\* __sessions.get(session_key)
SessionData(session_key) == Get(sessions, session_key)

\* __sessions.pop(session_key, None) is not None: the registry afterwards,
\* and the value returned
DelSession(session_key) == Without(sessions, {session_key})
DelSessionFound(session_key) == session_key \in DOMAIN sessions

\* get_user(key): the identity the provider resolves, or an error indicator
UserData ==
    { [error |-> "forbidden"],
      [name |-> "Ann", orcid |-> "u1", canUpdate |-> TRUE],
      [name |-> "Ann", orcid |-> "u1", canUpdate |-> FALSE],
      [name |-> "Ann", orcid |-> "u1"] }

\* the provider resolves key to another identity, or stops resolving it
ProviderChange(key, data) ==
    /\ provider[key] # data
    /\ provider' = [provider EXCEPT ![key] = data]
    /\ result' = NoReturn
    /\ response' = NoResponse
    /\ UNCHANGED <<storeVars, sessions, issued, req, reads>>

\* the identities the threads store
SessionValues ==
    { [name |-> "Ann", orcid |-> "u1", canUpdate |-> TRUE],
      [name |-> "Ann", orcid |-> "u1"],
      [name |-> "Bob", orcid |-> "u2"] }
SessionKeys == { SessionKey(k) : k \in Keys }

(* The registry functions as request threads call them.  __new_session    *)
(* evaluates __session_key(key) and then stores; the store, the get and   *)
(* the pop are each one operation on the dictionary.                      *)

Returned(call, fields) ==
    /\ result' = Update([call |-> call], fields)
    /\ UNCHANGED <<storeVars, response, issued, provider, reads>>

\* session_key = __session_key(key)
CallNewSession(q, key, data) ==
    /\ req[q] = NoCall
    /\ req' = [req EXCEPT ![q] = [op |-> "new_session", key |-> key, data |-> data,
                                   session_key |-> SessionKey(key)]]
    /\ result' = NoReturn
    /\ UNCHANGED <<storeVars, sessions, response, issued, provider, reads>>

\* __sessions[session_key] = data; return session_key
StoreSession(q) ==
    /\ req[q] # NoCall
    /\ sessions' = NewSession(req[q].key, req[q].data)
    /\ req' = [req EXCEPT ![q] = NoCall]
    /\ Returned("new_session", [key |-> req[q].key, data |-> req[q].data,
                                 value |-> req[q].session_key])

CallSessionData(q, session_key) ==
    /\ req[q] = NoCall
    /\ Returned("session_data", [session |-> session_key,
                                  value |-> SessionData(session_key)])
    /\ UNCHANGED <<sessions, req>>

CallDelSession(q, session_key) ==
    /\ req[q] = NoCall
    /\ sessions' = DelSession(session_key)
    /\ Returned("del_session", [session |-> session_key,
                                 value |-> DelSessionFound(session_key)])
    /\ UNCHANGED req

NoParams == [k \in {} |-> ""]
AuthParams == { [key |-> "k1"], [key |-> "k2"], NoParams }
Credentials ==
    { [key |-> "k1", session |-> "t1"], [key |-> "k1", session |-> "t2"],
      [key |-> "k1"], [session |-> "t1"] }

\* variant: the gate without session_key == __session_key(key)
AuthenticatedAnySession(parameters) ==
    /\ Has(parameters, "key")
    /\ Has(parameters, "session")
    /\ parameters.session \in DOMAIN sessions
\* the condition under which decorated_function calls the wrapped handler
Authenticated(parameters) ==
    /\ Has(parameters, "key")
    /\ Has(parameters, "session")
    /\ parameters.session = SessionKey(parameters.key)
    /\ parameters.session \in DOMAIN sessions

\* variant: the flag of the identity the provider resolves at present
GUpdateFromProvider(parameters) ==
    LET data == provider[parameters.key]
    IN IF Has(data, "canUpdate") THEN data.canUpdate ELSE FALSE
\* variant: data.get('canUpdate', True)
GUpdateDefaultTrue(parameters) ==
    LET data == sessions[parameters.session]
    IN IF Has(data, "canUpdate") THEN data.canUpdate ELSE TRUE
\* flask.g.update = data.get('canUpdate', False)
GUpdate(parameters) ==
    LET data == sessions[parameters.session]
    IN IF Has(data, "canUpdate") THEN data.canUpdate ELSE FALSE

Respond(op, parameters, status, body) ==
    /\ response' = [op |-> op, params |-> parameters, status |-> status, body |-> body]
    /\ result' = NoReturn
    /\ UNCHANGED <<issued, req, provider, reads>>

\* make_response('{"error": "forbidden"}', 403)
Forbidden(op, parameters) ==
    /\ Respond(op, parameters, 403, [error |-> "forbidden"])
    /\ UNCHANGED <<storeVars, sessions>>

(* The request handlers.  The server runs each request on a thread of its *)
(* own, so the statements of one handler interleave with those of the     *)
(* others.  req[q] holds the locals of the handler thread q runs: op and  *)
(* params of the request, args of the call it makes on the store, update  *)
(* (flask.g.update), store (annotation_store), at (the statement it is    *)
(* at) and value (what the call returned; user_data in authenticate).     *)

Idle(q) == req[q] = NoCall
At(q, at) == req[q] # NoCall /\ req[q].at = at

\* a statement of a handler that does not end the request
Silent ==
    /\ response' = NoResponse
    /\ result' = NoReturn
    /\ UNCHANGED <<issued, provider, reads>>

\* the handler of q returns or raises, and the server answers the request
Answer(q, status, body) ==
    /\ response' = [op |-> req[q].op, params |-> req[q].params, status |-> status,
                    body |-> body]
    /\ req' = [req EXCEPT ![q] = NoCall]
    /\ result' = NoReturn
    /\ UNCHANGED <<issued, provider, reads>>

\* the wrapped function is called: its first statement is
\* annotation_store = AnnotationStore()
Enter(q, op, parameters, args, update) ==
    /\ req' = [req EXCEPT ![q] = [op |-> op, params |-> parameters, args |-> args,
                                   update |-> update, store |-> NoHandle,
                                   at |-> "construct", value |-> NoResult]]
    /\ Silent
    /\ UNCHANGED <<storeVars, sessions>>

\* decorated_function of __authenticated: one __sessions.get decides, and
\* sets flask.g.update, before the handler runs
Gated(q, op, parameters, args) ==
    /\ Idle(q)
    /\ IF Authenticated(parameters)
       THEN Enter(q, op, parameters, args, GUpdate(parameters))
       ELSE Forbidden(op, parameters)

\* variant: a session for whatever get_user answered
AuthenticateStoreAlways(q) ==
    /\ At(q, "store")
    /\ LET parameters == req[q].params
           user_data == req[q].value
       IN IF Has(parameters, "key")
          THEN /\ sessions' = NewSession(parameters.key, user_data)
               /\ Answer(q, 200, [session |-> SessionKey(parameters.key),
                                  data |-> user_data])
          ELSE /\ Answer(q, 403, user_data)
               /\ UNCHANGED sessions
    /\ UNCHANGED storeVars
\* authenticate() after get_user has answered: a session unless the answer
\* has 'error'
AuthenticateStore(q) ==
    /\ At(q, "store")
    /\ LET parameters == req[q].params
           user_data == req[q].value
       IN IF ~Has(user_data, "error")
          THEN /\ sessions' = NewSession(parameters.key, user_data)
               /\ Answer(q, 200, [session |-> SessionKey(parameters.key),
                                  data |-> user_data])
          ELSE /\ Answer(q, 403, user_data)
               /\ UNCHANGED sessions
    /\ UNCHANGED storeVars

\* authenticate(): user_data = get_user(key), the identity the provider
\* resolves when it is asked
Authenticate(q, parameters) ==
    /\ Idle(q)
    /\ req' = [req EXCEPT ![q] =
                 [op |-> "authenticate", params |-> parameters, args |-> <<>>,
                  update |-> FALSE, store |-> NoHandle, at |-> "store",
                  value |-> IF Has(parameters, "key") THEN provider[parameters.key]
                            ELSE [error |-> "forbidden"]]]
    /\ Silent
    /\ UNCHANGED <<storeVars, sessions>>

Unauthenticate(parameters) ==
    /\ Respond("unauthenticate", parameters, 200, [success |-> "Unauthenticated"])
    /\ UNCHANGED <<storeVars, sessions>>

\* the items parameter of the features request: absent, a string, or a list
NoItems == [kind |-> "none"]
ItemsGiven == { [kind |-> "str", str |-> "i1"], [kind |-> "list", list |-> {}],
                [kind |-> "list", list |-> {"i1"}] }
\* if isinstance(items, str): items = [items]
ItemList(items) == IF items.kind = "str" THEN {items.str} ELSE items.list

ReqItems(q, parameters, resource_id, user_id, participated) ==
    Gated(q, "items", parameters, <<resource_id, user_id, participated>>)

ReqFeatures(q, parameters, resource_id, items) ==
    Gated(q, "features", parameters, <<resource_id, items>>)

ReqAnnotations(q, parameters, resource_id, item_id) ==
    Gated(q, "annotations", parameters, <<resource_id, item_id>>)

ReqAnnotation(q, parameters, annotation_id) ==
    Gated(q, "annotation", parameters, <<annotation_id>>)

\* mapping: the creator of the posted annotation is a JSON object
ReqAddAnnotation(q, parameters, p, mapping) ==
    Gated(q, "add_annotation", parameters, <<p, mapping>>)

\* the download handler has no gate
Download(q) ==
    /\ Idle(q)
    /\ Enter(q, "download", NoParams, <<>>, FALSE)

\* the statement of a handler raises: the handler ends there, before
\* annotation_store.close(), and the server answers 500
HandlerRaise(q) ==
    /\ Answer(q, 500, [error |-> "Internal Server Error"])
    /\ UNCHANGED <<storeVars, sessions>>

\* a handle no store object has
FreeHandle(h) ==
    /\ ~open[h]
    /\ pc[h] = "idle"
    /\ \A q \in Requests : IF Idle(q) THEN TRUE ELSE req[q].store # h

\* AnnotationStore(): db_name.exists(), and the connect of a store whose
\* file exists
ReqOpen(q, h) ==
    /\ At(q, "construct")
    /\ FreeHandle(h)
    /\ IF file = "absent"
       THEN /\ req' = [req EXCEPT ![q].store = h, ![q].at = "create"]
            /\ UNCHANGED open
       ELSE /\ req' = [req EXCEPT ![q].store = h, ![q].at = "call"]
            /\ open' = [open EXCEPT ![h] = TRUE]
    /\ Silent
    /\ UNCHANGED <<file, dbAnn, dbFeat, writer, pending, trans, loaded, tx, pc, cur, sessions>>

\* db = sqlite3.connect(db_name) of a new store: the file is created
ReqOpenCreate(q) ==
    /\ At(q, "create")
    /\ file' = IF file = "absent" THEN "empty" ELSE file
    /\ req' = [req EXCEPT ![q].at = "schema"]
    /\ Silent
    /\ UNCHANGED <<connVars, sessions>>

\* db.executescript(ANNOTATION_STORE_SCHEMA)
ReqOpenSchema(q) ==
    /\ At(q, "schema")
    /\ file = "empty"
    /\ file' = "ready"
    /\ req' = [req EXCEPT ![q].at = "connect"]
    /\ Silent
    /\ UNCHANGED <<connVars, sessions>>

\* table annotations already exists: another constructor has created the
\* tables since db_name.exists(); the handler has no store object
ReqOpenSchemaRaise(q) ==
    /\ At(q, "schema")
    /\ file = "ready"
    /\ HandlerRaise(q)

\* self.__db = sqlite3.connect(db_name)
ReqOpenConnect(q) ==
    /\ At(q, "connect")
    /\ open' = [open EXCEPT ![req[q].store] = TRUE]
    /\ req' = [req EXCEPT ![q].at = "call"]
    /\ Silent
    /\ UNCHANGED <<file, dbAnn, dbFeat, writer, pending, trans, loaded, tx, pc, cur, sessions>>

ReadOps == {"items", "features", "annotations", "annotation", "download"}

\* the call a reading handler makes on its store
Body(op, args, s) ==
    IF op = "items"
    THEN IF args[2] # None
         THEN user_items(s, args[1], args[2], args[3])
         ELSE annotated_items(s, args[1])
    ELSE IF op = "features"
    THEN IF args[2] # NoItems
         THEN item_features(s, args[1], ItemList(args[2]))
         ELSE features(s, args[1])
    ELSE IF op = "annotations"
    THEN annotations(s, args[1], args[2])
    ELSE IF op = "annotation"
    THEN annotation(s, args[1])
    ELSE annotations(s, None, None)

\* the call executes a select: item_features returns without one when its
\* list is empty
BodySelects(op, args) ==
    IF op = "features" /\ args[2] # NoItems THEN ItemList(args[2]) # {} ELSE TRUE

\* the call of a reading handler returns
ReqQuery(q) ==
    /\ At(q, "call")
    /\ req[q].op \in ReadOps
    /\ BodySelects(req[q].op, req[q].args)
          => file = "ready" /\ ~ReadLockedOut(req[q].store)
    /\ loaded' = [loaded EXCEPT ![req[q].store] = BodySelects(req[q].op, req[q].args)]
    /\ req' = [req EXCEPT ![q].value = Body(req[q].op, req[q].args, Store(req[q].store)),
                          ![q].at = "close"]
    /\ Silent
    /\ UNCHANGED <<file, dbAnn, dbFeat, writer, pending, trans, open, tx, pc, cur, sessions>>

\* the select raises: no such table between another constructor's connect
\* and executescript, database is locked under a PENDING lock that outlasts
\* the timeout
ReqQueryRaise(q) ==
    /\ At(q, "call")
    /\ req[q].op \in ReadOps
    /\ BodySelects(req[q].op, req[q].args)
    /\ file = "empty" \/ ReadLockedOut(req[q].store)
    /\ HandlerRaise(q)

\* '{"error": "forbidden"}', 403, {'mimetype': 'application/json'}
ForbiddenTuple == [tuple |-> <<"{error: forbidden}", "403", "{mimetype: application/json}">>]

\* the add_annotation handler whose flask.g.update is false
ReqForbidden(q) ==
    /\ At(q, "call")
    /\ req[q].op = "add_annotation"
    /\ ~req[q].update
    /\ req' = [req EXCEPT ![q].value = ForbiddenTuple, ![q].at = "close"]
    /\ Silent
    /\ UNCHANGED <<storeVars, sessions>>

\* At(q, "call") in the add_annotation handler that calls the store
Adding(q) ==
    /\ At(q, "call")
    /\ req[q].op = "add_annotation"
    /\ req[q].update

\* add_annotation raises AttributeError: the creator is not a mapping
ReqAddRaise(q) ==
    /\ Adding(q)
    /\ ~req[q].args[2]
    /\ HandlerRaise(q)

\* add_annotation returns {} for a payload it does not accept
ReqAddInvalid(q) ==
    /\ Adding(q)
    /\ req[q].args[2]
    /\ ~Valid(req[q].args[1])
    /\ req' = [req EXCEPT ![q].value = NoResult, ![q].at = "close"]
    /\ Silent
    /\ UNCHANGED <<storeVars, sessions>>

\* the statements add_annotation executes on its connection
Committing(p, now) ==
    LET id == Len(dbAnn) + 1
        t1 == TxInsert(NoTx, AnnotationRow(p, Created(p, now)))
        t2 == TxUpdate(dbFeat, t1, id, p.resource, p.item)
    IN IF StoresFeature(Pop(p, "feature"))
       THEN TxFeature(t2, FeatureRow(p.resource, p.item, id, p.feature))
       ELSE t2

\* the insert takes the write lock; the update and the feature insert follow
\* on the connection that holds it
ReqInsert(q, now) ==
    /\ Adding(q)
    /\ req[q].args[2]
    /\ Valid(req[q].args[1])
    /\ file = "ready"
    /\ ~LockedByOther(req[q].store)
    /\ Len(dbAnn) < MaxPosted
    /\ tx' = [tx EXCEPT ![req[q].store] = Committing(req[q].args[1], now)]
    /\ writer' = req[q].store
    /\ req' = [req EXCEPT ![q].value = [annotationId |-> Len(dbAnn) + 1],
                          ![q].at = "commit"]
    /\ loaded' = [loaded EXCEPT ![req[q].store] = TRUE]
    /\ Silent
    /\ UNCHANGED <<file, dbAnn, dbFeat, pending, trans, open, pc, cur, sessions>>

\* the insert raises (no such table; database is locked, by a connection of
\* this process or of another; a storage failure, after which SQLite has
\* rolled back): add_annotation returns the error and the handler goes on to
\* close()
ReqInsertRaise(q, rolled_back) ==
    /\ Adding(q)
    /\ req[q].args[2]
    /\ Valid(req[q].args[1])
    /\ trans' = [trans EXCEPT ![req[q].store] = TransAfterRaise(req[q].store, rolled_back)]
    /\ loaded' = [loaded EXCEPT ![req[q].store] = SchemaRead(req[q].store)]
    /\ req' = [req EXCEPT ![q].value = [error |-> OperationalError], ![q].at = "close"]
    /\ Silent
    /\ UNCHANGED <<file, dbAnn, dbFeat, writer, pending, open, tx, pc, cur, sessions>>

\* self.__db.commit()
ReqCommit(q) ==
    /\ At(q, "commit")
    /\ ~ReadByOther(req[q].store)
    /\ dbAnn' = ApplyAnn(dbAnn, tx[req[q].store])
    /\ dbFeat' = ApplyFeat(dbFeat, tx[req[q].store])
    /\ tx' = [tx EXCEPT ![req[q].store] = NoTx]
    /\ writer' = NoHandle
    /\ pending' = FALSE
    /\ req' = [req EXCEPT ![q].at = "close"]
    /\ Silent
    /\ UNCHANGED <<file, trans, loaded, open, pc, cur, sessions>>

\* the commit raises: the result gets the error beside the identifier, and
\* the connection keeps its statements and the lock, PENDING from now on,
\* unless SQLite has rolled the transaction back
ReqCommitRaise(q, rolled_back) ==
    /\ At(q, "commit")
    /\ tx' = IF rolled_back THEN [tx EXCEPT ![req[q].store] = NoTx] ELSE tx
    /\ writer' = IF rolled_back THEN NoHandle ELSE writer
    /\ pending' = ~rolled_back
    /\ req' = [req EXCEPT ![q].value = Update(req[q].value, [error |-> OperationalError]),
                          ![q].at = "close"]
    /\ Silent
    /\ UNCHANGED <<file, dbAnn, dbFeat, trans, loaded, open, pc, cur, sessions>>

\* annotation_store.close() and the handler's return: what the connection
\* has not committed is discarded
ReqClose(q) ==
    /\ At(q, "close")
    /\ open' = [open EXCEPT ![req[q].store] = FALSE]
    /\ Released(req[q].store)
    /\ Answer(q, 200, req[q].value)
    /\ UNCHANGED <<file, dbAnn, dbFeat, pc, cur, sessions>>

\* the interpreter discards the store object of a handler that has raised:
\* its connection is closed
Finalize(h) ==
    /\ open[h]
    /\ pc[h] = "idle"
    /\ \A q \in Requests : IF Idle(q) THEN TRUE ELSE req[q].store # h
    /\ open' = [open EXCEPT ![h] = FALSE]
    /\ Released(h)
    /\ result' = NoReturn
    /\ response' = NoResponse
    /\ UNCHANGED <<file, dbAnn, dbFeat, pc, cur, sessions, issued, req, provider, reads>>

StoreHandles == {"h1"}

Next ==
    \/ \E h \in StoreHandles : Open(h)
    \/ \E h \in StoreHandles : OpenCreate(h)
    \/ \E h \in StoreHandles : OpenSchema(h)
    \/ \E h \in StoreHandles : OpenConnect(h)
    \/ \E h \in StoreHandles : Close(h)
    \/ \E h \in StoreHandles, p \in Payloads : AddClosed(h, p)
    \/ \E h \in StoreHandles, p \in Payloads : AddInvalid(h, p)
    \/ \E h \in StoreHandles, p \in Payloads, now \in Clock : AddInsert(h, p, now)
    \/ \E h \in StoreHandles, p \in Payloads, rb \in BOOLEAN : InsertRaise(h, p, rb)
    \/ \E h \in StoreHandles, p \in NonMappingPayloads : AddRaise(h, p)
    \/ \E h \in StoreHandles : AddUpdate(h)
    \/ \E h \in StoreHandles : AddFeature(h)
    \/ \E h \in StoreHandles : AddCommit(h)
    \/ \E h \in StoreHandles, rb \in BOOLEAN : StatementRaise(h, rb)

\* one store handle used through its methods
Spec == Init /\ [][Next]_vars

ConcNext ==
    \/ \E h \in Handles : Open(h)
    \/ \E h \in Handles : OpenCreate(h)
    \/ \E h \in Handles : OpenSchema(h)
    \/ \E h \in Handles : OpenSchemaRaise(h)
    \/ \E h \in Handles : OpenConnect(h)
    \/ \E h \in Handles : Close(h)
    \/ \E h \in Handles, p \in ConcPayloads, now \in Clock : AddInsert(h, p, now)
    \/ \E h \in Handles, p \in ConcPayloads, rb \in BOOLEAN : InsertRaise(h, p, rb)
    \/ \E h \in Handles : AddUpdate(h)
    \/ \E h \in Handles : AddFeature(h)
    \/ \E h \in Handles : AddCommit(h)
    \/ \E h \in Handles, rb \in BOOLEAN : StatementRaise(h, rb)
    \/ \E h \in Handles : ReadRaise(h, "annotations", <<None, None>>)
    \/ \E h \in Handles : ReadRaise(h, "features", <<"r1">>)
    \/ \E h \in Handles : ReadAnnotations(h, None, None)

\* add_annotation calls and reads running at the same time on separate
\* handles
SpecConc == Init /\ [][ConcNext]_vars

\* the threads that run handlers on the store, and the store objects they
\* construct
Workers == {"q1"}

WebNext ==
    \/ \E k \in ChangingKeys, d \in UserData : ProviderChange(k, d)
    \/ \E q \in Requests, c \in AuthParams : Authenticate(q, c)
    \/ \E q \in Requests : AuthenticateStore(q)
    \/ \E c \in Credentials : Unauthenticate(c)
    \/ \E q \in Workers, c \in Credentials, p \in WebPayloads :
          ReqAddAnnotation(q, c, p, TRUE)
    \/ \E q \in Workers, c \in Credentials : ReqAnnotations(q, c, "r1", None)
    \/ \E q \in Workers, h \in StoreHandles : ReqOpen(q, h)
    \/ \E q \in Workers : ReqOpenCreate(q)
    \/ \E q \in Workers : ReqOpenSchema(q)
    \/ \E q \in Workers : ReqOpenConnect(q)
    \/ \E q \in Workers : ReqQuery(q)
    \/ \E q \in Workers : ReqForbidden(q)
    \/ \E q \in Workers : ReqAddInvalid(q)
    \/ \E q \in Workers, now \in Clock : ReqInsert(q, now)
    \/ \E q \in Workers, rb \in BOOLEAN : ReqInsertRaise(q, rb)
    \/ \E q \in Workers : ReqCommit(q)
    \/ \E q \in Workers, rb \in BOOLEAN : ReqCommitRaise(q, rb)
    \/ \E q \in Workers : ReqClose(q)

\* the request handlers, a handler on the store at a time, while other
\* threads authenticate
SpecWeb == Init /\ [][WebNext]_vars

ReadNext ==
    \/ \E h \in StoreHandles : Open(h)
    \/ \E h \in StoreHandles : OpenCreate(h)
    \/ \E h \in StoreHandles : OpenSchema(h)
    \/ \E h \in StoreHandles : OpenConnect(h)
    \/ \E h \in StoreHandles : Close(h)
    \/ \E h \in StoreHandles, p \in ReadPayloads, now \in Clock : AddInsert(h, p, now)
    \/ \E h \in StoreHandles : AddUpdate(h)
    \/ \E h \in StoreHandles : AddFeature(h)
    \/ \E h \in StoreHandles : AddCommit(h)
    \/ \E h \in StoreHandles, p \in ReadPayloads : InsertRaise(h, p, FALSE)
    \/ \E h \in StoreHandles, rb \in BOOLEAN : StatementRaise(h, rb)
    \/ \E h \in StoreHandles : ReadAnnotatedItems(h, "r1")
    \/ \E h \in StoreHandles, b \in BOOLEAN : ReadUserItems(h, "r1", "u1", b)
    \/ \E h \in StoreHandles : ReadFeatures(h, "r1")
    \/ \E h \in StoreHandles : ReadItemFeatures(h, "r1", {"i1"})
    \/ \E h \in StoreHandles : ReadAnnotations(h, "r1", None)
    \/ \E h \in StoreHandles : \E id \in RowIds(ViewAnn(h)) : ReadAnnotation(h, id)

\* one store handle written and read through its methods
SpecRead == Init /\ [][ReadNext]_vars

RaiseNext ==
    \/ \E k \in ChangingKeys, d \in RaiseUserData : ProviderChange(k, d)
    \/ \E q \in Requests, c \in RaiseParams : Authenticate(q, c)
    \/ \E q \in Requests : AuthenticateStore(q)
    \/ \E q \in Requests : Download(q)
    \/ \E q \in Requests, c \in RaiseCredentials, u \in {None, "u1"} :
          ReqItems(q, c, "r1", u, TRUE)
    \/ \E q \in Requests, c \in RaiseCredentials, is \in ItemsGiven \cup {NoItems} :
          ReqFeatures(q, c, "r1", is)
    \/ \E q \in Requests, c \in RaiseCredentials : ReqAnnotations(q, c, "r1", None)
    \/ \E q \in Requests, c \in RaiseCredentials : ReqAnnotation(q, c, 1)
    \/ \E q \in Requests, c \in RaiseCredentials, p \in RaisePayloads :
          ReqAddAnnotation(q, c, p, TRUE)
    \/ \E q \in Requests, c \in RaiseCredentials, p \in NonMappingPayloads :
          ReqAddAnnotation(q, c, p, FALSE)
    \/ \E q \in Requests, h \in Handles : ReqOpen(q, h)
    \/ \E q \in Requests : ReqOpenCreate(q)
    \/ \E q \in Requests : ReqOpenSchema(q)
    \/ \E q \in Requests : ReqOpenSchemaRaise(q)
    \/ \E q \in Requests : ReqOpenConnect(q)
    \/ \E q \in Requests : ReqQuery(q)
    \/ \E q \in Requests : ReqQueryRaise(q)
    \/ \E q \in Requests : ReqAddRaise(q)
    \/ \E q \in Requests, now \in Clock : ReqInsert(q, now)
    \/ \E q \in Requests, rb \in BOOLEAN : ReqInsertRaise(q, rb)
    \/ \E q \in Requests : ReqCommit(q)
    \/ \E q \in Requests, rb \in BOOLEAN : ReqCommitRaise(q, rb)
    \/ \E q \in Requests : ReqClose(q)
    \/ \E h \in Handles : Finalize(h)

\* request handlers that run at the same time: a handler constructs its
\* store while others run, and the statements of a handler may raise
SpecRaise == Init /\ [][RaiseNext]_vars

OrderNext ==
    \/ \E h \in StoreHandles : Open(h)
    \/ \E h \in StoreHandles : OpenCreate(h)
    \/ \E h \in StoreHandles : OpenSchema(h)
    \/ \E h \in StoreHandles : OpenConnect(h)
    \/ \E h \in StoreHandles, p \in OrderPayloads, now \in Clock : AddInsert(h, p, now)
    \/ \E h \in StoreHandles : AddUpdate(h)
    \/ \E h \in StoreHandles : AddCommit(h)

\* annotations that share items and timestamps, added one after the other
SpecOrder == Init /\ [][OrderNext]_vars

SessionsNext ==
    \/ \E q \in Requests, k \in Keys, d \in SessionValues : CallNewSession(q, k, d)
    \/ \E q \in Requests : StoreSession(q)
    \/ \E q \in Requests, t \in SessionKeys : CallSessionData(q, t)
    \/ \E q \in Requests, t \in SessionKeys : CallDelSession(q, t)

\* the session registry used by request threads that run at the same time
SpecSessions == Init /\ [][SessionsNext]_vars
----------------------------------------------------------------------------
(* Claims *)

CurrentRows(feat, r, i) ==
    { k \in 1..Len(feat) :
        feat[k].deleted = Null /\ feat[k].resource = r /\ feat[k].item = i }

\* C1: in every committed state of the store, each (resource, item) pair has
\* at most one feature row whose deleted field is null.
C1_SingleCurrentFeature ==
    \A r \in Resources, i \in Items : Cardinality(CurrentRows(dbFeat, r, i)) <= 1

\* two features were added for one pair, and another pair has its own
C1_Witness ==
    /\ \E j, k \in 1..Len(dbFeat) :
          /\ j < k
          /\ dbFeat[j].resource = dbFeat[k].resource
          /\ dbFeat[j].item = dbFeat[k].item
          /\ dbFeat[j].deleted # Null
          /\ dbFeat[k].deleted = Null
    /\ \E j, k \in 1..Len(dbFeat) :
          /\ dbFeat[j].item # dbFeat[k].item
          /\ dbFeat[j].deleted = Null
          /\ dbFeat[k].deleted = Null

\* C2: when add_annotation calls for the same pair, each with a feature, run
\* at the same time on separate handles, no committed state holds two
\* feature rows of that pair with deleted = null, and neither does the state
\* any of the connections sees.
C2_ConcurrentSingleCurrent ==
    \A h \in Handles : \A j, k \in 1..Len(ViewFeat(h)) :
        LET f == ViewFeat(h)
        IN (/\ j # k
            /\ f[j].resource = f[k].resource
            /\ f[j].item = f[k].item
            /\ f[j].deleted = Null) => f[k].deleted # Null

\* one call is about to commit a feature for a pair that has a committed
\* current feature, and the call on the other handle has just been refused
C2_Witness ==
    /\ open["h1"] /\ open["h2"]
    /\ pc["h1"] = "commit"
    /\ Has(cur["h1"].payload, "feature")
    /\ CurrentRows(dbFeat, cur["h1"].payload.resource, cur["h1"].payload.item) # {}
    /\ tx["h1"].feat # <<>>
    /\ result.call = "add_annotation"
    /\ Has(result.value, "error")

\* C3: when add_annotation has failed with a store error during the
\* supersede update or the feature-row insertion, after its annotation row
\* was inserted, the committed rows are as before and a read on the same
\* handle shows neither that row nor a feature change of that call.
C3_FailedCallNotObservable ==
    [][ \A h \in StoreHandles :
          (/\ pc[h] \in {"update", "feature"}
           /\ pc'[h] = "idle"
           /\ result'.call = "add_annotation"
           /\ Has(result'.value, "error")) =>
             LET after == [open |-> open'[h], ann |-> ApplyAnn(dbAnn', tx'[h]),
                           feat |-> ApplyFeat(dbFeat', tx'[h])]
                 committed == [open |-> TRUE, ann |-> dbAnn, feat |-> dbFeat]
             IN /\ dbAnn' = dbAnn
                /\ dbFeat' = dbFeat
                /\ annotation(after, result'.value.annotationId) = NoResult
                /\ annotations(after, None, None) = annotations(committed, None, None)
                /\ \A r \in Resources :
                      /\ annotated_items(after, r) = annotated_items(committed, r)
                      /\ features(after, r) = features(committed, r) ]_vars

\* a call has failed after its insert, for a pair that has a committed
\* current feature, and the handle holds no uncommitted statement
C3_Witness ==
    /\ result.call = "add_annotation"
    /\ Has(result.value, "error")
    /\ Has(result.value, "annotationId")
    /\ result.value.annotationId = Len(dbAnn) + 1
    /\ \A h \in StoreHandles : open[h] /\ tx[h] = NoTx
    /\ writer = NoHandle
    /\ \E k \in 1..Len(dbFeat) : dbFeat[k].deleted = Null

\* C4: add_annotation with a payload whose resource, item, creator or
\* creator.orcid is absent or empty returns a result that contains an error
\* and writes nothing.
C4_InvalidPayloadIsError ==
    [][ (result'.call = "add_annotation" /\ ~result'.valid)
          => /\ Has(result'.value, "error")
             /\ UNCHANGED <<dbAnn, dbFeat, tx>> ]_vars

\* C5: after unauthenticate for a session token the token is no longer in
\* the registry.
C5_UnauthenticateRemoves ==
    (response.op = "unauthenticate" /\ Has(response.params, "session"))
        => response.params.session \notin DOMAIN sessions

GatedOps == {"items", "features", "annotations", "annotation", "add_annotation"}

\* thread q calls a wrapped handler in this step, or ends one
Enters(q, ops) == Idle(q) /\ req'[q] # NoCall /\ req'[q].op \in ops
Ends(q) == req[q] # NoCall /\ req'[q] = NoCall

\* the flag the registry holds for the session of the credentials c
StoredFlag(c) ==
    /\ Has(c, "session")
    /\ c.session \in DOMAIN sessions
    /\ Has(sessions[c.session], "canUpdate")
    /\ sessions[c.session].canUpdate

\* C6: a gated operation is invoked only when the request carries a key and
\* a session token with token = derive_token(key) and the token is in the
\* registry; a request that is answered 403 fails that test and changes
\* neither the store nor the registry; every other answer to a gated request
\* is the answer of a handler that was invoked.
C6_Gate ==
    [][ /\ \A q \in Requests : Enters(q, GatedOps) =>
              LET c == req'[q].params
              IN /\ Has(c, "key")
                 /\ Has(c, "session")
                 /\ c.session = SessionKey(c.key)
                 /\ c.session \in DOMAIN sessions
        /\ (response'.op \in GatedOps /\ response'.status = 403) =>
              LET c == response'.params
              IN /\ ~(/\ Has(c, "key")
                      /\ Has(c, "session")
                      /\ c.session = SessionKey(c.key)
                      /\ c.session \in DOMAIN sessions)
                 /\ response'.body = [error |-> "forbidden"]
                 /\ UNCHANGED <<storeVars, sessions, req>>
        /\ (response'.op \in GatedOps /\ response'.status # 403) =>
              \E q \in Requests : /\ Ends(q)
                                  /\ req[q].op = response'.op
                                  /\ req[q].params = response'.params
      ]_vars

\* a request was refused whose token is registered but is not the one
\* derived from its key, after a request had written
C6_Witness ==
    /\ response.op \in GatedOps
    /\ response.status = 403
    /\ Has(response.params, "key")
    /\ Has(response.params, "session")
    /\ response.params.session \in DOMAIN sessions
    /\ Len(dbAnn) > 0

\* the handler of thread q commits in this step
Commits(q) ==
    /\ At(q, "commit")
    /\ req[q].op = "add_annotation"
    /\ req'[q] # NoCall
    /\ req'[q].at = "close"
    /\ ~Has(req'[q].value, "error")

\* C7 as stated: the store changes through the add-annotation request only
\* when the stored identity of the requesting session has canUpdate true at
\* the time of the write.
C7_WriteNeedsCanUpdate ==
    [][ (dbAnn' # dbAnn \/ dbFeat' # dbFeat) =>
          \E q \in Requests : Commits(q) /\ StoredFlag(req[q].params) ]_vars

\* C7: the store changes through the add-annotation request only when the
\* stored identity of the requesting session had canUpdate true when the
\* request passed the gate: flask.g.update is that flag, the handler keeps
\* it while it runs, and only a handler whose flag is true writes.
C7_WriteNeedsCanUpdateAtGate ==
    [][ /\ (dbAnn' # dbAnn \/ dbFeat' # dbFeat) =>
              \E q \in Requests : Commits(q) /\ req[q].update
        /\ \A q \in Requests :
              /\ Enters(q, {"add_annotation"}) =>
                    (req'[q].update <=> StoredFlag(req'[q].params))
              /\ (req[q] # NoCall /\ req'[q] # NoCall) =>
                    /\ req'[q].update = req[q].update
                    /\ req'[q].params = req[q].params
      ]_vars

\* a handler has committed its annotation for a session that another
\* authentication has meanwhile stored again without canUpdate true
C7_Witness ==
    \E q \in Requests :
        /\ At(q, "close")
        /\ req[q].op = "add_annotation"
        /\ Has(req[q].value, "annotationId")
        /\ ~Has(req[q].value, "error")
        /\ ~StoredFlag(req[q].params)
        /\ Len(dbAnn) > 0

\* C8: for every annotation id in the store, annotation(id) is that
\* annotation's record, with feature = null when it had no feature or its
\* feature has been superseded; only an unknown id gives the empty result.
C8_AnnotationOfEveryId ==
    \A id \in 1..MaxAnnotations :
        LET a == annotation(FreshStore, id)
            own == { k \in 1..Len(dbFeat) :
                        dbFeat[k].annotation = id /\ dbFeat[k].deleted = Null }
        IN IF id \in RowIds(dbAnn)
           THEN /\ a # NoResult
                /\ a.annotationId = id
                /\ a.resource = dbAnn[id].resource
                /\ a.item = dbAnn[id].item
                /\ own = {} => a.feature = None
                /\ \A k \in own : a.feature = dbFeat[k].feature
           ELSE a = NoResult

\* C9: user_items(resource, user, true) and user_items(resource, user, false)
\* are disjoint and together are annotated_items(resource).
Range(seq) == { seq[n] : n \in 1..Len(seq) }

C9_UserItemsComplement ==
    \A r \in Resources, u \in Users :
        LET mine == Range(user_items(FreshStore, r, u, TRUE).items)
            others == Range(user_items(FreshStore, r, u, FALSE).items)
            all == Range(annotated_items(FreshStore, r).items)
        IN /\ mine = { i \in Items : \E k \in RowIds(dbAnn) :
                          /\ dbAnn[k].resource = r
                          /\ dbAnn[k].item = i
                          /\ dbAnn[k].orcid = u }
           /\ mine \cap others = {}
           /\ mine \cup others = all

\* C10: a committed feature row's deleted field changes at most once, from
\* null to the identifier of an annotation of the same pair added by the
\* step that changes it; once it is non-null no later step changes it.
C10_DeletedSetOnce ==
    [][ \A k \in 1..Len(dbFeat) :
          /\ k <= Len(dbFeat')
          /\ dbFeat[k].deleted # Null => dbFeat'[k].deleted = dbFeat[k].deleted
          /\ (dbFeat[k].deleted = Null /\ dbFeat'[k].deleted # Null) =>
                /\ dbFeat'[k].deleted \in (Len(dbAnn) + 1)..Len(dbAnn')
                /\ dbAnn'[dbFeat'[k].deleted].resource = dbFeat[k].resource
                /\ dbAnn'[dbFeat'[k].deleted].item = dbFeat[k].item ]_vars

\* a superseded feature row has kept its marker through a later
\* add_annotation for the same pair and one for another pair
C10_Witness ==
    \E k \in 1..Len(dbFeat) :
        /\ dbFeat[k].deleted # Null
        /\ \E a \in RowIds(dbAnn) :
              /\ a > dbFeat[k].deleted
              /\ dbAnn[a].resource = dbFeat[k].resource
              /\ dbAnn[a].item = dbFeat[k].item

\* C11: the annotations table is an append-only log: a step of the store
\* (add_annotation, close) leaves every committed annotation row at its rowid
\* with its content, so the committed rows only grow.
C11_AppendOnly ==
    [][ \A k \in 1..Len(dbAnn) :
          /\ k <= Len(dbAnn')
          /\ dbAnn'[k] = dbAnn[k] ]_vars

\* rows were committed by separate calls, one of which superseded a feature,
\* and the handle was closed afterwards
C11_Witness ==
    /\ Len(dbAnn) >= 2
    /\ \E k \in 1..Len(dbFeat) : dbFeat[k].deleted # Null
    /\ \A h \in StoreHandles : ~open[h]

\* C12: annotation identifiers are never reused: the identifier in the
\* result of an add_annotation call, failed calls included, is greater than
\* every identifier a result has carried before.
C12_IdentifiersNeverReused ==
    [][ (result'.call = "add_annotation" /\ Has(result'.value, "annotationId"))
          => result'.value.annotationId > issued ]_vars

\* C13: the result of add_annotation never carries both annotationId and
\* error, and when it carries annotationId the annotation row and the
\* feature changes of the call are committed.
C13_IdentifierOrError ==
    result.call = "add_annotation" =>
        LET v == result.value
        IN /\ ~(Has(v, "annotationId") /\ Has(v, "error"))
           /\ Has(v, "annotationId") =>
                 /\ v.annotationId \in RowIds(dbAnn)
                 /\ \A h \in StoreHandles : tx[h] = NoTx

LatestOf(ann, r, i) ==
    CHOOSE k \in RowIds(ann) :
        /\ ann[k].resource = r /\ ann[k].item = i
        /\ \A j \in RowIds(ann) : (ann[j].resource = r /\ ann[j].item = i) => j <= k

\* C14: in every committed state a current feature row of a (resource,
\* item) pair references the annotation most recently added for the pair,
\* and an add_annotation call that succeeds leaves its pair with a current
\* feature row of its annotation exactly when its payload carried a
\* structured feature.
C14_CurrentFeatureOfLatest ==
    [][ /\ \A r \in Resources, i \in Items :
              \A k \in CurrentRows(dbFeat', r, i) :
                  /\ \E a \in RowIds(dbAnn') : dbAnn'[a].resource = r /\ dbAnn'[a].item = i
                  /\ dbFeat'[k].annotation = LatestOf(dbAnn', r, i)
        /\ \A h \in StoreHandles :
              (/\ pc[h] = "commit"
               /\ result'.call = "add_annotation"
               /\ ~Has(result'.value, "error")) =>
                 LET p == cur[h].payload
                 IN (\E k \in CurrentRows(dbFeat', p.resource, p.item) :
                        dbFeat'[k].annotation = result'.value.annotationId)
                    <=> (Has(p, "feature") /\ p.feature \in JsonDicts) ]_vars

\* C15: session registry round trip: create(key, data) returns
\* derive_token(key) and a lookup of that token then returns data, whatever
\* entry the token had before, leaving the other entries alone; lookup
\* returns the entry or absent and changes nothing; remove(token) returns
\* true exactly when the token had an entry, and a lookup then returns
\* absent.
C15_RegistryRoundTrip ==
    [][ /\ result'.call = "new_session" =>
              /\ result'.value = SessionKey(result'.key)
              /\ Get(sessions', result'.value) = <<result'.data>>
              /\ Without(sessions', {result'.value}) = Without(sessions, {result'.value})
        /\ result'.call = "session_data" =>
              /\ sessions' = sessions
              /\ result'.value = IF result'.session \in DOMAIN sessions
                                 THEN <<sessions[result'.session]>> ELSE <<>>
        /\ result'.call = "del_session" =>
              /\ result'.value = (result'.session \in DOMAIN sessions)
              /\ Get(sessions', result'.session) = <<>>
              /\ Without(sessions', {result'.session}) = Without(sessions, {result'.session})
      ]_vars

\* a remove has found and removed the entry of its token while the other
\* token keeps an entry that a create stored
C15_Witness ==
    /\ result.call = "del_session"
    /\ result.value
    /\ result.session \notin DOMAIN sessions
    /\ sessions # [t \in {} |-> 0]

\* C16: with create, lookup and remove running at the same time, every
\* change of the registry is the whole effect of one call in flight (the
\* entry one create stores, or the entry one remove takes away), applied to
\* the registry as it is; every entry is a value stored whole by one create,
\* and a lookup returns such a value or absent.
C16_RegistryLinearizable ==
    [][ /\ sessions' # sessions =>
              \/ \E q \in Requests :
                    /\ req[q] # NoCall
                    /\ req'[q] = NoCall
                    /\ DOMAIN sessions' = DOMAIN sessions \cup {SessionKey(req[q].key)}
                    /\ \A t \in DOMAIN sessions' :
                          sessions'[t] = IF t = SessionKey(req[q].key)
                                         THEN req[q].data ELSE sessions[t]
              \/ /\ result'.call = "del_session"
                 /\ sessions' = Without(sessions, {result'.session})
        /\ \A t \in DOMAIN sessions' : sessions'[t] \in SessionValues
        /\ result'.call = "session_data" =>
              result'.value \in {<<>>} \cup { <<d>> : d \in SessionValues }
      ]_vars

\* a create is between deriving its token and storing while the token has
\* an entry with other data, stored by the create that has just returned
C16_Witness ==
    \E q \in Requests :
        /\ req[q] # NoCall
        /\ result.call = "new_session"
        /\ result.key = req[q].key
        /\ result.data # req[q].data
        /\ sessions[req[q].session_key] = result.data

\* C17: a request handler closes the store handle it opens on every exit
\* path: when a handler ends, the handle of its store is not open.
C17_HandlersCloseTheirStore ==
    [][ \A q \in Requests :
          (Ends(q) /\ req[q].store # NoHandle) => ~open'[req[q].store] ]_vars

\* C18: add_annotation returns a result for every payload and every store
\* failure: no call ends by raising.
C18_ErrorsAreReturned == ~(result.call = "raise" /\ result.in = "add_annotation")

OrcidOrder == <<"u0", "u1", "u2">>

\* C19: annotations(resource, item) lists its records newest first by
\* created, and records with the same created by creator orcid ascending.
C19_NewestFirstThenOrcid ==
    \A r \in Resources \cup {None}, i \in Items \cup {None} :
        LET l == annotations(FreshStore, r, i)
        IN \A n \in 1..(Len(l) - 1) :
              /\ Rank(TimeOrder, l[n].created) >= Rank(TimeOrder, l[n + 1].created)
              /\ l[n].created = l[n + 1].created =>
                    Rank(OrcidOrder, l[n].creator.orcid)
                        <= Rank(OrcidOrder, l[n + 1].creator.orcid)

\* C20: the canUpdate flag that decides an add-annotation request is the
\* one stored in the session when it was authenticated: a change of the
\* identity the provider resolves leaves the registry and the requests in
\* progress as they are, the provider is asked by authenticate only, the
\* registry changes only when an authenticate stores the answer it got, and
\* a request that passes the gate is refused or let through by the flag the
\* registry holds then, whatever the provider resolves at that time.
C20_FlagOfAuthenticationTime ==
    [][ /\ provider' # provider => (sessions' = sessions /\ req' = req)
        /\ sessions' # sessions =>
              \E q \in Requests :
                  /\ Ends(q)
                  /\ req[q].op = "authenticate"
                  /\ sessions' = Update(sessions,
                         [t \in {SessionKey(req[q].params.key)} |-> req[q].value])
        /\ \A q \in Requests :
              /\ Enters(q, GatedOps) =>
                    (req'[q].update <=> StoredFlag(req'[q].params))
              /\ (/\ At(q, "call")
                  /\ req[q].op = "add_annotation"
                  /\ req'[q] # NoCall
                  /\ req'[q].at # "call") =>
                    ((req'[q].value = ForbiddenTuple) <=> ~req[q].update)
      ]_vars

\* a request has written through a session stored with canUpdate true
\* although the provider no longer resolves its key to an identity with
\* canUpdate
C20_Witness ==
    \E q \in Requests :
        /\ At(q, "close")
        /\ req[q].op = "add_annotation"
        /\ Has(req[q].value, "annotationId")
        /\ ~Has(req[q].value, "error")
        /\ StoredFlag(req[q].params)
        /\ LET now == provider[req[q].params.key]
           IN ~(Has(now, "canUpdate") /\ now.canUpdate)

\* C21: an authentication that fails (no key, or the identity resolution
\* answers an error) leaves the registry unchanged and is answered 403; a
\* session is created only when the resolution succeeds: the answer of
\* authenticate goes by what get_user returned to it, and the registry
\* changes only with an authentication that is answered 200.
C21_FailedAuthenticationNoSession ==
    [][ /\ \A q \in Requests : Enters(q, {"authenticate"}) =>
              LET c == req'[q].params
              IN req'[q].value = IF Has(c, "key") THEN provider[c.key]
                                 ELSE [error |-> "forbidden"]
        /\ response'.op = "authenticate" =>
              \E q \in Requests :
                  /\ Ends(q)
                  /\ req[q].params = response'.params
                  /\ LET c == req[q].params
                         user_data == req[q].value
                     IN IF ~Has(c, "key") \/ Has(user_data, "error")
                        THEN /\ sessions' = sessions
                             /\ response'.status = 403
                             /\ Has(response'.body, "error")
                        ELSE /\ response'.status = 200
                             /\ sessions' = Update(sessions,
                                    [t \in {SessionKey(c.key)} |-> user_data])
        /\ sessions' # sessions =>
              (response'.op = "authenticate" /\ response'.status = 200)
      ]_vars

\* an authentication with a key the provider did not resolve has been
\* refused while the session of an earlier authentication with that key is
\* still registered
C21_Witness ==
    /\ response.op = "authenticate"
    /\ response.status = 403
    /\ Has(response.params, "key")
    /\ Has(response.body, "error")
    /\ SessionKey(response.params.key) \in DOMAIN sessions

ReadCalls ==
    {"annotated_items", "user_items", "features", "item_features", "annotations",
     "annotation"}

C23_NoUpdateIsForbidden ==
    (/\ response.op = "add_annotation"
     /\ Authenticated(response.params)
     /\ ~GUpdate(response.params))
    => /\ response.status = 403
       /\ response.body = [error |-> "forbidden"]

\* C24: an add_annotation call that succeeds commits the rows of that call
\* only, also after a call on the same handle has failed: one annotation
\* row, which has the returned identifier, and feature changes that carry
\* that identifier.
C24_OnlySuccessfulCallCommitted ==
    [][ (/\ result'.call = "add_annotation"
         /\ Has(result'.value, "annotationId")
         /\ ~Has(result'.value, "error")) =>
          LET id == result'.value.annotationId
          IN /\ Len(dbAnn') = Len(dbAnn) + 1
             /\ id = Len(dbAnn')
             /\ \A k \in 1..Len(dbFeat') :
                   IF k <= Len(dbFeat)
                   THEN \/ dbFeat'[k] = dbFeat[k]
                        \/ dbFeat'[k] = [dbFeat[k] EXCEPT !.deleted = id]
                   ELSE dbFeat'[k].annotation = id ]_vars

SamePair(a, b) == a.resource = b.resource /\ a.item = b.item

\* every feature row references an annotation row of its pair, and the
\* marker of a superseded row a later annotation row of its pair
FeatureIntegrity(ann, feat) ==
    \A k \in 1..Len(feat) :
        /\ feat[k].annotation \in RowIds(ann)
        /\ SamePair(ann[feat[k].annotation], feat[k])
        /\ feat[k].deleted # Null =>
              /\ feat[k].deleted \in RowIds(ann)
              /\ SamePair(ann[feat[k].deleted], feat[k])
              /\ feat[k].deleted > feat[k].annotation

\* C25: in every committed state the feature rows satisfy referential
\* integrity, and the add_annotation call that changes the committed
\* feature rows changes rows of its own (resource, item) pair only.
C25_FeatureRowsOfThePair ==
    [][ /\ FeatureIntegrity(dbAnn', dbFeat')
        /\ dbFeat' # dbFeat =>
              \E h \in Handles :
                 /\ pc[h] = "commit"
                 /\ pc'[h] = "idle"
                 /\ \A k \in 1..Len(dbFeat') :
                       \/ k <= Len(dbFeat) /\ dbFeat'[k] = dbFeat[k]
                       \/ SamePair(dbFeat'[k], cur[h].payload) ]_vars
====
